---------------------------- MODULE Spec2Model ----------------------------
(***************************************************************************)
(* A model of pymel's core/system.py: the reference identity (copy-number  *)
(* parsing and composition of FileReference), the reference enumerations   *)
(* (listNamespaces, listReferences, getReferences, subReferences), the     *)
(* load state queries, the export wrappers and the workspace entry         *)
(* dictionaries.                                                           *)
(*                                                                         *)
(* Python strings that the code takes apart are sequences of one-character *)
(* strings; an optional value (None or a value) is a sequence of length at *)
(* most one.                                                               *)
(***************************************************************************)
EXTENDS Integers, Sequences, FiniteSets, TLC

VARIABLES
    seed,        \* the (base path, copy number) the raw reference string is made of
    rawRef,      \* the raw reference string handed to FileReference(...)
    fileRef,     \* the outcome of FileReference(rawRef)
    composed,    \* the outcome of fileRef.withCopyNumber()
    pc,          \* position of the caller
    scene,       \* the host's scene: its top-level references, in the host's order
    result,      \* the last call made by the caller and what it returned
    workspaceEntries, \* the host's workspace: the entries of its four key-spaces
    refNodeAttr,  \* the _refNode attribute of the FileReference held in fileRef
    firstResolved \* history: what the first resolution of fileRef's refNode gave

parseVars == <<seed, rawRef, fileRef, composed, pc, refNodeAttr, firstResolved>>
vars == <<seed, rawRef, fileRef, composed, pc, scene, result, workspaceEntries,
          refNodeAttr, firstResolved>>

-----------------------------------------------------------------------------
(* Bounds of the model *)

\* longest base path drawn as an input
MaxLen == 4
\* largest copy number drawn as an input
MaxCopy == 10
\* most top-level references the scene holds
MaxRefs == 2

\* the characters base paths are drawn from: a letter, digits, both braces
Alphabet == {"a", "0", "1", "{", "}"}

-----------------------------------------------------------------------------
(* Python values *)

\* None, and a present value, of an optional
None == <<>>
Some(v) == <<v>>

\* the four kinds of workspace entries, and the entry names and values used
EntryTypes == {"objectType", "fileRule", "renderType", "variable"}
EntryNames == {"DXF", "super"}
EntryValues == {"", "data"}

\* all strings over Alphabet of length at most n
StringsUpTo(n) == UNION {[1..k -> Alphabet] : k \in 0..n}

Digits == <<"0", "1", "2", "3", "4", "5", "6", "7", "8", "9">>

IsDigit(c) == \E i \in 1..10 : Digits[i] = c

DigitVal(c) == (CHOOSE i \in 1..10 : Digits[i] = c) - 1

IsSpace(c) == c \in {" ", "\t", "\n", "\r"}

\* str.strip(): leading and trailing whitespace removed
RECURSIVE LStrip(_)
LStrip(s) ==
    IF s # <<>> /\ IsSpace(Head(s)) THEN LStrip(Tail(s)) ELSE s

RECURSIVE RStrip(_)
RStrip(s) ==
    IF s # <<>> /\ IsSpace(s[Len(s)]) THEN RStrip(SubSeq(s, 1, Len(s) - 1)) ELSE s

\* the value of a non-empty string of decimal digits
RECURSIVE DigitsVal(_)
DigitsVal(s) ==
    IF Len(s) = 0 THEN 0
    ELSE 10 * DigitsVal(SubSeq(s, 1, Len(s) - 1)) + DigitVal(s[Len(s)])

\* int(s) of a string: surrounding whitespace and one sign are accepted, then
\* one or more decimal digits (leading zeros included); anything else is a
\* ValueError (ok = FALSE).
PyInt(s) ==
    LET t == RStrip(LStrip(s))
        signed == t # <<>> /\ Head(t) \in {"+", "-"}
        d == IF signed THEN Tail(t) ELSE t
        good == d # <<>> /\ \A i \in 1..Len(d) : IsDigit(d[i])
    IN  IF ~good THEN [ok |-> FALSE, val |-> 0]
        ELSE [ok |-> TRUE,
              val |-> IF signed /\ Head(t) = "-" THEN 0 - DigitsVal(d) ELSE DigitsVal(d)]

\* '%d' % n
RECURSIVE FormatNat(_)
FormatNat(n) ==
    IF n < 10 THEN <<Digits[n + 1]>>
    ELSE FormatNat(n \div 10) \o <<Digits[(n % 10) + 1]>>

FormatInt(n) == IF n < 0 THEN <<"-">> \o FormatNat(0 - n) ELSE FormatNat(n)

\* s.split(sep) for a one-character separator: the pieces between all
\* occurrences of sep
RECURSIVE Split(_, _)
Split(s, sep) ==
    IF \A i \in 1..Len(s) : s[i] # sep THEN <<s>>
    ELSE LET i == CHOOSE j \in 1..Len(s) :
                      s[j] = sep /\ \A k \in 1..(j - 1) : s[k] # sep
         IN  <<SubSeq(s, 1, i - 1)>> \o Split(SubSeq(s, i + 1, Len(s)), sep)

\* s[:-1]: all but the last character (the empty string stays empty)
DropLast(s) == SubSeq(s, 1, Len(s) - 1)

-----------------------------------------------------------------------------
(* FileReference: identity *)

\* splitCopyNumber with the slice buf[1][:-1] forgotten
splitCopyNumber_keepLast(path) ==
    LET buf == Split(path, "{")
    IN  IF Len(buf) < 2 THEN <<path, None>>
        ELSE LET conv == PyInt(buf[2])
             IN  IF conv.ok THEN <<buf[1], Some(conv.val)>> ELSE <<path, None>>

\* splitCopyNumber(path): buf = path.split('{'); (buf[0], int(buf[1][:-1])),
\* and (path, None) on any exception (IndexError when there is no '{',
\* ValueError when int() refuses the text).
splitCopyNumber(path) ==
    LET buf == Split(path, "{")
    IN  IF Len(buf) < 2 THEN <<path, None>>
        ELSE LET conv == PyInt(DropLast(buf[2]))
             IN  IF conv.ok THEN <<buf[1], Some(conv.val)>> ELSE <<path, None>>

\* create(path): the instance is the string `path` of the split, with the
\* copy number kept in _copyNumber
create(path) ==
    LET sp == splitCopyNumber(path)
    IN  [path |-> sp[1], copyNumber |-> sp[2]]

\* withCopyNumber that leaves the closing brace out
withCopyNumber_noClose(self) ==
    IF self.copyNumber # None
    THEN self.path \o <<"{">> \o FormatInt(self.copyNumber[1])
    ELSE self.path

\* withCopyNumber(self): '%s{%d}' % (self, self._copyNumber), or self when
\* there is no copy number
withCopyNumber(self) ==
    IF self.copyNumber # None
    THEN self.path \o <<"{">> \o FormatInt(self.copyNumber[1]) \o <<"}">>
    ELSE self.path

\* the raw reference string the host writes for a base path and an optional
\* copy number: <path> or <path>{<n>}
RawReference(p, n) ==
    IF n = None THEN p ELSE p \o <<"{">> \o FormatInt(n[1]) \o <<"}">>

\* FileReference(path): `if path:` an empty path is no seed, and with no
\* other seed the constructor raises ValueError
FileReference_path(path) ==
    IF path # <<>> THEN [raised |-> "", node |-> Some(create(path))]
    ELSE [raised |-> "ValueError", node |-> None]

-----------------------------------------------------------------------------
(* The parse specification: a raw reference string is made from a base
   path and an optional copy number, a FileReference is constructed from it
   and asked for its path with the copy number. *)

NoCall == [raised |-> "", node |-> None]

InitParse ==
    /\ seed \in [path : StringsUpTo(MaxLen), copy : {None} \cup {Some(n) : n \in 0..MaxCopy}]
    /\ rawRef = RawReference(seed.path, seed.copy)
    /\ fileRef = NoCall
    /\ composed = None
    /\ pc = "start"
    /\ scene = <<>>
    /\ result = [op |-> "none"]
    /\ workspaceEntries = [t \in EntryTypes |-> [n \in EntryNames |-> None]]
    /\ refNodeAttr = None
    /\ firstResolved = None

Construct ==
    /\ pc = "start"
    /\ fileRef' = FileReference_path(rawRef)
    /\ pc' = "constructed"
    /\ UNCHANGED <<seed, rawRef, composed, scene, result, workspaceEntries,
                 refNodeAttr, firstResolved>>

WithCopyNumber ==
    /\ pc = "constructed"
    /\ fileRef.node # None
    /\ composed' = Some(withCopyNumber(fileRef.node[1]))
    /\ pc' = "composed"
    /\ UNCHANGED <<seed, rawRef, fileRef, scene, result, workspaceEntries,
                 refNodeAttr, firstResolved>>

NextParse == Construct \/ WithCopyNumber

SpecParse == InitParse /\ [][NextParse]_vars

-----------------------------------------------------------------------------
(* Properties of the reference identity *)

\* a base path of the raw-reference grammar: not empty, and free of the '{'
\* that opens the copy-number suffix
ValidBasePath(p) == p # <<>> /\ \A i \in 1..Len(p) : p[i] # "{"

\* the text of a non-negative integer
IsIntegerText(t) == t # <<>> /\ \A i \in 1..Len(t) : IsDigit(t[i])

\* s has a '{' and the text after the first one is an integer and a closing '}'
WellFormedSuffix(s) ==
    \E i \in 1..Len(s) :
        /\ s[i] = "{"
        /\ \A k \in 1..(i - 1) : s[k] # "{"
        /\ LET rest == SubSeq(s, i + 1, Len(s))
           IN  /\ rest # <<>>
               /\ rest[Len(rest)] = "}"
               /\ IsIntegerText(DropLast(rest))

\* C1: for every raw reference string <path> or <path>{<n>}, n >= 0, the
\* FileReference constructed from it gives back exactly that string from
\* withCopyNumber().
C1_ComposeOfParse ==
    (pc = "composed" /\ ValidBasePath(seed.path)) => composed = Some(rawRef)

\* C1 witness: a raw string with a copy number has been parsed and composed
C1_Witness ==
    /\ pc = "composed"
    /\ ValidBasePath(seed.path)
    /\ seed.copy = Some(10)
    /\ fileRef.node[1].copyNumber = Some(10)

\* C2: parsing p{n} gives base path p and copy number n, and parsing p alone
\* gives p with no copy number, for every valid base path p and n >= 0.
C2_ParseOfCompose ==
    (pc # "start" /\ ValidBasePath(seed.path)) =>
        /\ fileRef.raised = ""
        /\ fileRef.node = Some([path |-> seed.path, copyNumber |-> seed.copy])

\* C2 witness: both shapes are parsed, one with a copy number and one without
C2_Witness ==
    /\ pc = "constructed"
    /\ ValidBasePath(seed.path)
    /\ Len(seed.path) = MaxLen
    /\ seed.copy = Some(1)
    /\ fileRef.node[1].path = seed.path

\* C3: the parse never raises, and whenever the text after the first '{' is
\* not exactly an integer followed by '}', the result is the raw string
\* unchanged with no copy number.
C3_TotalParse ==
    (pc # "start" /\ rawRef # <<>>) =>
        /\ fileRef.raised = ""
        /\ ~WellFormedSuffix(rawRef) =>
               fileRef.node = Some([path |-> rawRef, copyNumber |-> None])

-----------------------------------------------------------------------------
(* The host scene and its file command *)

\* the files the scene references, and the namespaces given to references
Files == {<<"a">>, <<"b">>}
Namespaces == {"A", "B"}

\* the references a referenced file holds itself (a scene within a scene):
\* file a references file c under namespace C, file b references nothing
NestedReferences(file) ==
    IF file = <<"a">> THEN <<[raw |-> <<"c">>, ns |-> "C"]>> ELSE <<>>

\* the raw reference string of a reference of the scene
RawOf(r) == RawReference(r.file, r.copy)

\* the position in the scene of the reference the host knows under `raw`
\* (0: none)
HostFind(sc, raw) ==
    IF \E i \in 1..Len(sc) : RawOf(sc[i]) = raw
    THEN CHOOSE i \in 1..Len(sc) : RawOf(sc[i]) = raw
    ELSE 0

\* the copy number the host gives a new reference to `file`: none for the
\* first, then the least unused number from 1
NextCopy(sc, file) ==
    IF \A i \in 1..Len(sc) : sc[i].file # file THEN None
    ELSE Some(CHOOSE n \in 1..(Len(sc) + 1) :
                  /\ \A i \in 1..Len(sc) : ~(sc[i].file = file /\ sc[i].copy = Some(n))
                  /\ \A m \in 1..(n - 1) :
                         \E i \in 1..Len(sc) : sc[i].file = file /\ sc[i].copy = Some(m))

\* What the host does on one call of an enumeration: how it answers a list
\* query that has nothing to list (an empty list, None, or its failure),
\* whether the reference-list query fails, and the top-level reference (by
\* position, 0: none) whose namespace query fails.
HostAnswers(sc) ==
    [emptyAs : {"list", "None", "error"}, failRefs : {FALSE}, failNs : 0..Len(sc)]
        \cup {[emptyAs |-> "list", failRefs |-> TRUE, failNs |-> 0]}

\* cmds.file(q=1, reference=1): the raw strings of the top-level references
HostReferences(sc, host) ==
    IF host.failRefs \/ (sc = <<>> /\ host.emptyAs = "error")
    THEN [raised |-> "RuntimeError", isNone |-> FALSE, val |-> <<>>]
    ELSE IF sc = <<>> /\ host.emptyAs = "None"
    THEN [raised |-> "", isNone |-> TRUE, val |-> <<>>]
    ELSE [raised |-> "", isNone |-> FALSE, val |-> [i \in 1..Len(sc) |-> RawOf(sc[i])]]

\* cmds.file(x, q=1, namespace=1) of a top-level reference
HostNamespace(sc, host, raw) ==
    LET i == HostFind(sc, raw)
    IN  IF i = 0 \/ i = host.failNs
        THEN [raised |-> "RuntimeError", val |-> ""]
        ELSE [raised |-> "", val |-> sc[i].ns]

\* cmds.file(path, q=1, reference=1): the references nested in the
\* reference the host knows under `path`
HostSubReferences(sc, host, path) ==
    LET i == HostFind(sc, path)
    IN  IF i = 0 \/ host.failRefs
        THEN [raised |-> "RuntimeError", isNone |-> FALSE, val |-> <<>>]
        ELSE IF NestedReferences(sc[i].file) = <<>> /\ host.emptyAs = "error"
        THEN [raised |-> "RuntimeError", isNone |-> FALSE, val |-> <<>>]
        ELSE IF NestedReferences(sc[i].file) = <<>> /\ host.emptyAs = "None"
        THEN [raised |-> "", isNone |-> TRUE, val |-> <<>>]
        ELSE [raised |-> "", isNone |-> FALSE, val |-> NestedReferences(sc[i].file)]

\* cmds.file(path, q=1, deferReference=1)
HostDeferred(sc, raw) ==
    LET i == HostFind(sc, raw)
    IN  IF i = 0 THEN [raised |-> "RuntimeError", val |-> FALSE]
        ELSE [raised |-> "", val |-> sc[i].deferred]

-----------------------------------------------------------------------------
(* Python dictionaries *)

EmptyDict == [k \in {} |-> None]

\* d[k] = v
SetItem(d, k, v) == [x \in (DOMAIN d) \cup {k} |-> IF x = k THEN v ELSE d[x]]

\* d.update(e)
Update(d, e) == [x \in (DOMAIN d) \cup (DOMAIN e) |-> IF x \in DOMAIN e THEN e[x] ELSE d[x]]

-----------------------------------------------------------------------------
(* The module's names *)

\* the names bound in the module's global namespace: its imports (lines
\* 29-46: `import pymel.util as util` binds util alone) and its definitions
ModuleGlobals ==
    {"cmds", "OpenMaya", "util", "_factories", "createflag", "add_docs", "fscanf",
     "sys", "Filepath", "pathClass", "pmtypes", "_getTypeFromExtension", "feof",
     "sceneName", "listNamespaces", "listReferences", "getReferences",
     "WorkspaceEntryDict", "Workspace", "workspace", "FileInfo", "fileInfo",
     "Path", "CurrentFile", "FileReference", "createReference", "loadReference",
     "exportAll", "exportAsReference", "exportSelected", "exportAnim",
     "exportSelectedAnim", "exportAnimFromReference",
     "exportSelectedAnimFromReference", "importFile", "newFile", "openFile",
     "renameFile", "saveAs"}

\* a global name evaluates, or raises NameError
NameBound(name) == name \in ModuleGlobals

-----------------------------------------------------------------------------
(* The enumerations *)

\* subReferences' loop from the i-th nested reference on: the right-hand
\* side pymel.FileReference(x) is evaluated first, then the key
\* namespace + cmds.file(x, q=1, namespace=1); the bare except ends the loop
\* on the first exception and keeps what was stored.
RECURSIVE subReferencesLoop(_, _, _, _)
subReferencesLoop(xs, i, namespace, res) ==
    IF i > Len(xs) THEN res
    ELSE IF ~NameBound("pymel") THEN res
    ELSE LET made == FileReference_path(xs[i].raw)
         IN  IF made.raised # "" THEN res
             ELSE subReferencesLoop(xs, i + 1, namespace,
                                    SetItem(res, namespace \o xs[i].ns, made.node[1]))

\* FileReference.subReferences(self): self.namespace is read before the try
\* (a failure of that query leaves the method); the loop runs inside it.
subReferences(self, sc, host) ==
    LET own == HostNamespace(sc, host, withCopyNumber(self))
    IN  IF own.raised # "" THEN [raised |-> own.raised, val |-> EmptyDict]
        ELSE LET listed == HostSubReferences(sc, host, self.path)
             IN  IF listed.raised # "" \/ listed.isNone
                 THEN [raised |-> "", val |-> EmptyDict]
                 ELSE [raised |-> "",
                       val |-> subReferencesLoop(listed.val, 1, own.val \o ":", EmptyDict)]

\* getReferences' loop that keeps the first reference stored under a key
RECURSIVE getReferencesLoop_firstWins(_, _, _, _, _, _)
getReferencesLoop_firstWins(xs, i, recursive, sc, host, res) ==
    IF i > Len(xs) THEN res
    ELSE LET made == FileReference_path(xs[i])
             ns == HostNamespace(sc, host, xs[i])
         IN  IF made.raised # "" \/ ns.raised # "" THEN res
             ELSE LET stored == IF ns.val \in DOMAIN res THEN res
                                ELSE SetItem(res, ns.val, made.node[1])
                  IN  getReferencesLoop_firstWins(xs, i + 1, recursive, sc, host, stored)

\* getReferences' loop from the i-th raw string on: ref = FileReference(x);
\* res[cmds.file(x, q=1, namespace=1)] = ref; with recursive,
\* res.update(ref.subReferences()). The bare except ends the loop on the
\* first exception and keeps what was stored.
RECURSIVE getReferencesLoop(_, _, _, _, _, _)
getReferencesLoop(xs, i, recursive, sc, host, res) ==
    IF i > Len(xs) THEN res
    ELSE LET made == FileReference_path(xs[i])
             ns == HostNamespace(sc, host, xs[i])
         IN  IF made.raised # "" \/ ns.raised # "" THEN res
             ELSE LET stored == SetItem(res, ns.val, made.node[1])
                  IN  IF ~recursive
                      THEN getReferencesLoop(xs, i + 1, recursive, sc, host, stored)
                      ELSE LET sub == subReferences(made.node[1], sc, host)
                           IN  IF sub.raised # "" THEN stored
                               ELSE getReferencesLoop(xs, i + 1, recursive, sc, host,
                                                      Update(stored, sub.val))

\* getReferences with the try/except around the loop left out
getReferences_noTry(reference, recursive, sc, host) ==
    LET listed == HostReferences(sc, host)
    IN  IF listed.raised # "" THEN [raised |-> listed.raised, val |-> EmptyDict]
        ELSE IF listed.isNone THEN [raised |-> "TypeError", val |-> EmptyDict]
        ELSE [raised |-> "",
              val |-> getReferencesLoop(listed.val, 1, recursive, sc, host, EmptyDict)]

\* getReferences(reference=None, recursive=False). With a reference given,
\* the loop's first expression names `self`, which is bound nowhere: the
\* NameError is swallowed and the result stays empty. Iterating None is a
\* TypeError, swallowed as well.
getReferences(reference, recursive, sc, host) ==
    IF reference # None
    THEN [raised |-> "", val |-> EmptyDict]
    ELSE LET listed == HostReferences(sc, host)
         IN  IF listed.raised # "" \/ listed.isNone
             THEN [raised |-> "", val |-> EmptyDict]
             ELSE [raised |-> "",
                   val |-> getReferencesLoop(listed.val, 1, recursive, sc, host, EmptyDict)]

\* map(FileReference, xs) from the i-th element on
RECURSIVE mapFileReference(_, _)
mapFileReference(xs, i) ==
    IF i > Len(xs) THEN [raised |-> "", val |-> <<>>]
    ELSE LET made == FileReference_path(xs[i])
             rest == mapFileReference(xs, i + 1)
         IN  IF made.raised # "" THEN [raised |-> made.raised, val |-> <<>>]
             ELSE IF rest.raised # "" THEN rest
             ELSE [raised |-> "", val |-> <<made.node[1]>> \o rest.val]

\* listReferences(type='list'): the dictionary form runs getReferences'
\* flat loop inside a try; the list form is map(FileReference, ...) with no
\* try around it.
listReferences(type, sc, host) ==
    LET listed == HostReferences(sc, host)
    IN  IF type = "dict"
        THEN IF listed.raised # "" \/ listed.isNone
             THEN [raised |-> "", val |-> EmptyDict]
             ELSE [raised |-> "",
                   val |-> getReferencesLoop(listed.val, 1, FALSE, sc, host, EmptyDict)]
        ELSE IF listed.raised # "" THEN [raised |-> listed.raised, val |-> <<>>]
        ELSE IF listed.isNone THEN [raised |-> "TypeError", val |-> <<>>]
        ELSE mapFileReference(listed.val, 1)

\* listNamespaces(): the whole list comprehension is inside the try, so any
\* failure gives the empty list
listNamespaces(sc, host) ==
    LET listed == HostReferences(sc, host)
    IN  IF listed.raised # "" \/ listed.isNone THEN [raised |-> "", val |-> <<>>]
        ELSE IF \E i \in 1..Len(listed.val) :
                    HostNamespace(sc, host, listed.val[i]).raised # ""
        THEN [raised |-> "", val |-> <<>>]
        ELSE [raised |-> "",
              val |-> [i \in 1..Len(listed.val) |-> HostNamespace(sc, host, listed.val[i]).val]]

\* isLoaded with the `not` forgotten
isLoaded_noNot(self, sc) == HostDeferred(sc, withCopyNumber(self))

\* FileReference.isDeferred(self)
isDeferred(self, sc) == HostDeferred(sc, withCopyNumber(self))

\* FileReference.isLoaded(self): not cmds.file(..., q=1, deferReference=1)
isLoaded(self, sc) ==
    LET q == HostDeferred(sc, withCopyNumber(self))
    IN  [raised |-> q.raised, val |-> IF q.raised = "" THEN ~q.val ELSE FALSE]

-----------------------------------------------------------------------------
(* The scene specification: references are created, removed, loaded,
   unloaded, locked, unlocked and renamed, and the scene is enumerated. *)

NoResult == [op |-> "none"]

\* the FileReference a caller holds for the i-th reference of the scene
NodeOf(sc, i) == create(RawOf(sc[i]))

Init ==
    /\ seed = [path |-> <<>>, copy |-> None]
    /\ rawRef = <<>>
    /\ fileRef = NoCall
    /\ composed = None
    /\ pc = "idle"
    /\ scene = <<>>
    /\ result = NoResult
    /\ workspaceEntries = [t \in EntryTypes |-> [n \in EntryNames |-> None]]
    /\ refNodeAttr = None
    /\ firstResolved = None

\* createReference(path, namespace=ns): the host appends the reference, loaded
\* and unlocked
CreateReference ==
    \E file \in Files, ns \in Namespaces :
        /\ result = NoResult
        /\ Len(scene) < MaxRefs
        /\ scene' = Append(scene, [file |-> file, copy |-> NextCopy(scene, file),
                                   ns |-> ns, deferred |-> FALSE, locked |-> FALSE])
        /\ result' = NoResult
        /\ UNCHANGED <<parseVars, workspaceEntries>>

\* FileReference.remove()
Remove ==
    \E i \in 1..Len(scene) :
        LET t == HostFind(scene, withCopyNumber(NodeOf(scene, i)))
        IN  /\ result = NoResult
            /\ t # 0
            /\ scene' = SubSeq(scene, 1, t - 1) \o SubSeq(scene, t + 1, Len(scene))
            /\ result' = NoResult
            /\ UNCHANGED <<parseVars, workspaceEntries>>

\* FileReference.load()
Load ==
    \E i \in 1..Len(scene) :
        LET t == HostFind(scene, withCopyNumber(NodeOf(scene, i)))
        IN  /\ result = NoResult
            /\ t # 0
            /\ scene' = [scene EXCEPT ![t].deferred = FALSE]
            /\ result' = NoResult
            /\ UNCHANGED <<parseVars, workspaceEntries>>

\* FileReference.unload()
Unload ==
    \E i \in 1..Len(scene) :
        LET t == HostFind(scene, withCopyNumber(NodeOf(scene, i)))
        IN  /\ result = NoResult
            /\ t # 0
            /\ scene' = [scene EXCEPT ![t].deferred = TRUE]
            /\ result' = NoResult
            /\ UNCHANGED <<parseVars, workspaceEntries>>

\* FileReference.lock()
Lock ==
    \E i \in 1..Len(scene) :
        LET t == HostFind(scene, withCopyNumber(NodeOf(scene, i)))
        IN  /\ result = NoResult
            /\ t # 0
            /\ scene' = [scene EXCEPT ![t].locked = TRUE]
            /\ result' = NoResult
            /\ UNCHANGED <<parseVars, workspaceEntries>>

\* FileReference.unlock()
Unlock ==
    \E i \in 1..Len(scene) :
        LET t == HostFind(scene, withCopyNumber(NodeOf(scene, i)))
        IN  /\ result = NoResult
            /\ t # 0
            /\ scene' = [scene EXCEPT ![t].locked = FALSE]
            /\ result' = NoResult
            /\ UNCHANGED <<parseVars, workspaceEntries>>

\* FileReference.namespace = ns: the host renames, and refuses a namespace
\* another reference has
SetNamespace ==
    \E i \in 1..Len(scene), ns \in Namespaces :
        LET t == HostFind(scene, withCopyNumber(NodeOf(scene, i)))
        IN  /\ result = NoResult
            /\ t # 0
            /\ \A j \in 1..Len(scene) : j # t => scene[j].ns # ns
            /\ scene' = [scene EXCEPT ![t].ns = ns]
            /\ result' = NoResult
            /\ UNCHANGED <<parseVars, workspaceEntries>>

\* getReferences(recursive=...)
GetReferences ==
    \E recursive \in BOOLEAN, host \in HostAnswers(scene) :
        /\ result = NoResult
        /\ result' = [op |-> "getReferences", recursive |-> recursive, host |-> host,
                      ret |-> getReferences(None, recursive, scene, host)]
        /\ UNCHANGED <<scene, parseVars, workspaceEntries>>

\* listReferences(type)
ListReferences ==
    \E type \in {"list", "dict"}, host \in HostAnswers(scene) :
        /\ result = NoResult
        /\ result' = [op |-> "listReferences", type |-> type, host |-> host,
                      ret |-> listReferences(type, scene, host)]
        /\ UNCHANGED <<scene, parseVars, workspaceEntries>>

\* listNamespaces()
ListNamespaces ==
    \E host \in HostAnswers(scene) :
        /\ result = NoResult
        /\ result' = [op |-> "listNamespaces", host |-> host,
                      ret |-> listNamespaces(scene, host)]
        /\ UNCHANGED <<scene, parseVars, workspaceEntries>>

\* FileReference.subReferences() of a node of the scene
SubReferences ==
    \E i \in 1..Len(scene), host \in HostAnswers(scene) :
        /\ result = NoResult
        /\ result' = [op |-> "subReferences", index |-> i, host |-> host,
                      ret |-> subReferences(NodeOf(scene, i), scene, host)]
        /\ UNCHANGED <<scene, parseVars, workspaceEntries>>

\* isLoaded() and isDeferred() of a node, asked in the same scene state
LoadState ==
    \E i \in 1..Len(scene) :
        /\ result = NoResult
        /\ result' = [op |-> "loadState", index |-> i,
                      loaded |-> isLoaded(NodeOf(scene, i), scene),
                      deferred |-> isDeferred(NodeOf(scene, i), scene)]
        /\ UNCHANGED <<scene, parseVars, workspaceEntries>>

\* the caller is done with what the last query returned
Discard ==
    /\ result # NoResult
    /\ result' = NoResult
    /\ UNCHANGED <<scene, parseVars, workspaceEntries>>

\* the scene is built and enumerated
Next ==
    \/ CreateReference
    \/ Remove
    \/ SetNamespace
    \/ GetReferences
    \/ ListReferences
    \/ ListNamespaces
    \/ SubReferences
    \/ Discard

Spec == Init /\ [][Next]_vars

\* the scene is built, its references change their load and lock state, and
\* their load state is asked
NextLoadState ==
    \/ CreateReference
    \/ Remove
    \/ Load
    \/ Unload
    \/ Lock
    \/ Unlock
    \/ SetNamespace
    \/ LoadState
    \/ Discard

SpecLoadState == Init /\ [][NextLoadState]_vars

-----------------------------------------------------------------------------
(* Properties of the enumerations and of the load state *)

\* no host call of the last query failed
HostSound(host) == ~host.failRefs /\ host.failNs = 0

\* the position of the last reference of the scene with namespace ns
LastWith(sc, ns) ==
    CHOOSE i \in 1..Len(sc) :
        sc[i].ns = ns /\ \A j \in (i + 1)..Len(sc) : sc[j].ns # ns

\* C4: for a top-level reference A with namespace ns and a reference B nested
\* in it, the mapping of getReferences(recursive=True), and of
\* A.subReferences(), holds B's node under the key ns + ':' + B's namespace.
C4_NamespacePrefixing ==
    \A i \in 1..Len(scene) :
        \A k \in 1..Len(NestedReferences(scene[i].file)) :
            LET b == NestedReferences(scene[i].file)[k]
                key == scene[i].ns \o ":" \o b.ns
                asked == \/ result.op = "getReferences" /\ result.recursive
                         \/ result.op = "subReferences" /\ result.index = i
            IN  (asked /\ HostSound(result.host)) =>
                    /\ result.ret.raised = ""
                    /\ key \in DOMAIN result.ret.val
                    /\ result.ret.val[key] = [path |-> b.raw, copyNumber |-> None]

\* C5: getReferences(recursive=False) returns a mapping whose keys are
\* exactly the namespaces of the top-level references, each holding the node
\* of the last reference, in the host's order, that has the namespace.
C5_FlatListing ==
    (result.op = "getReferences" /\ ~result.recursive /\ HostSound(result.host)) =>
        /\ result.ret.raised = ""
        /\ DOMAIN result.ret.val = {scene[i].ns : i \in 1..Len(scene)}
        /\ \A ns \in DOMAIN result.ret.val :
               LET r == scene[LastWith(scene, ns)]
               IN  result.ret.val[ns] = [path |-> r.file, copyNumber |-> r.copy]

\* C5 witness: a flat listing of two references that share a namespace and
\* differ in their raw path
C5_Witness ==
    /\ result.op = "getReferences"
    /\ ~result.recursive
    /\ HostSound(result.host)
    /\ Len(scene) = 2
    /\ scene[1].ns = scene[2].ns
    /\ RawOf(scene[1]) # RawOf(scene[2])
    /\ DOMAIN result.ret.val = {scene[2].ns}

\* C6: isLoaded() and isDeferred() of a node, asked in the same scene state,
\* return opposite truth values.
C6_LoadedXorDeferred ==
    result.op = "loadState" =>
        /\ result.loaded.raised = ""
        /\ result.deferred.raised = ""
        /\ result.loaded.val # result.deferred.val

\* C6 witness: the load state of an unloaded, locked reference has been asked
C6_Witness ==
    /\ result.op = "loadState"
    /\ result.deferred.val
    /\ ~result.loaded.val
    /\ scene[result.index].locked
    /\ scene[result.index].deferred

\* C9: on a scene with no references getReferences returns an empty mapping
\* and raises nothing, whether the host answers with an empty list, with
\* None or with its failure, recursive or not.
C9_EmptyScene ==
    (result.op = "getReferences" /\ scene = <<>>) =>
        /\ result.ret.raised = ""
        /\ DOMAIN result.ret.val = {}

\* C9 witness: a recursive getReferences of the empty scene, answered by the
\* host's failure
C9_Witness ==
    /\ result.op = "getReferences"
    /\ result.recursive
    /\ scene = <<>>
    /\ result.host.emptyAs = "error"
    /\ result.ret.raised = ""

\* a host call made by the last enumeration failed
HostFailedDuring(res, sc) ==
    \/ res.host.failRefs
    \/ res.op \in {"getReferences", "listNamespaces"} /\ res.host.failNs # 0
    \/ res.op = "listReferences" /\ res.type = "dict" /\ res.host.failNs # 0
    \/ res.op = "subReferences"
           /\ res.host.failNs # 0
           /\ res.host.failNs = HostFind(sc, withCopyNumber(NodeOf(sc, res.index)))

\* C10: when a host call fails during listReferences, getReferences,
\* listNamespaces or subReferences, the operation returns an empty
\* collection and raises nothing.
C10_EnumerationsSwallow ==
    (/\ result.op \in {"getReferences", "listReferences", "listNamespaces", "subReferences"}
     /\ HostFailedDuring(result, scene)) =>
        /\ result.ret.raised = ""
        /\ DOMAIN result.ret.val = {}

-----------------------------------------------------------------------------
(* The export wrappers *)

\* the export paths used: out.ma, out.mb, out.txt, out, a.ma/o and o.ma.mb
\* with short names
ExportPaths ==
    {<<"o", ".", "m", "a">>, <<"o", ".", "m", "b">>, <<"o", ".", "t", "x", "t">>,
     <<"o">>, <<"a", ".", "m", "a", "/", "o">>, <<"o", ".", "m", "a", ".", "m", "b">>}

\* the values of an explicit type option
ExplicitTypes == {"mayaAscii", "mayaBinary", "OBJ"}

\* the keyword arguments of an export call: the type option, given or not
ExportKwargs == [type : {None} \cup {Some(t) : t \in ExplicitTypes}]

\* s.rfind(c): the last position of c in s (0: none)
RFind(s, c) ==
    IF \E i \in 1..Len(s) : s[i] = c
    THEN CHOOSE i \in 1..Len(s) : s[i] = c /\ \A j \in (i + 1)..Len(s) : s[j] # c
    ELSE 0

\* Path(path).ext: the text from the last dot of the last path component on,
\* empty when that component has no dot
Ext(path) ==
    LET dot == RFind(path, ".")
        sep == RFind(path, "/")
    IN  IF dot > sep THEN SubSeq(path, dot, Len(path)) ELSE <<>>

\* _getTypeFromExtension(path): a dictionary lookup, a KeyError for any
\* extension but .ma and .mb
_getTypeFromExtension(path) ==
    IF Ext(path) = <<".", "m", "a">> THEN [raised |-> "", val |-> "mayaAscii"]
    ELSE IF Ext(path) = <<".", "m", "b">> THEN [raised |-> "", val |-> "mayaBinary"]
    ELSE [raised |-> "KeyError", val |-> ""]

\* if 'type' not in kwargs: try: kwargs['type'] = _getTypeFromExtension(exportPath)
\* except: pass -- with `locals` the names the function binds: naming
\* exportPath where it is no parameter is a NameError, swallowed as well
InferType(kwargs, path, locals) ==
    IF kwargs.type # None THEN kwargs
    ELSE IF "exportPath" \notin locals THEN kwargs
    ELSE LET t == _getTypeFromExtension(path)
         IN  IF t.raised # "" THEN kwargs ELSE [kwargs EXCEPT !.type = Some(t.val)]

\* one call of cmds.file: its primary flag and its type option
HostCall(flag, type) == [flag |-> flag, type |-> type]

\* exportAll(exportPath, **kwargs) and exportAsReference(exportPath, **kwargs):
\* after the inference the call is cmds.file(*args, **kwargs), and `args` is
\* neither a parameter nor a global: NameError, before the host is called
exportWithArgs(flag, exportPath, kwargs) ==
    LET kw == InferType(kwargs, exportPath, {"exportPath", "kwargs"})
    IN  IF "args" \in {"exportPath", "kwargs"} \/ NameBound("args")
        THEN [raised |-> "", calls |-> <<HostCall(flag, kw.type)>>]
        ELSE [raised |-> "NameError", calls |-> <<>>]

\* exportSelected, exportAnim and exportSelectedAnim(exportPath, **kwargs):
\* cmds.file(exportPath, **kwargs)
exportWithPath(flag, exportPath, kwargs) ==
    LET kw == InferType(kwargs, exportPath, {"exportPath", "kwargs"})
    IN  [raised |-> "", calls |-> <<HostCall(flag, kw.type)>>]

\* exportAnimFromReference and exportSelectedAnimFromReference(*args, **kwargs):
\* the inference names exportPath, which is no parameter here
exportFromReference(flag, exportPath, kwargs) ==
    LET kw == InferType(kwargs, exportPath, {"args", "kwargs"})
    IN  [raised |-> "", calls |-> <<HostCall(flag, kw.type)>>]

\* FileReference.exportAnim and exportSelectedAnim(self, exportPath, **kwargs):
\* cmds.file(exportPath, rfn=self.refNode, <flag>=1), kwargs not passed on
exportOfReference(flag, exportPath, kwargs) ==
    LET kw == InferType(kwargs, exportPath, {"self", "exportPath", "kwargs"})
    IN  [raised |-> "", calls |-> <<HostCall(flag, None)>>]

\* saveAs(exportPath, **kwargs): cmds.file(rename=exportPath), then
\* cmds.file(save=True, **kwargs) with the type inferred
saveAs(exportPath, kwargs) ==
    LET kw == InferType(kwargs, exportPath, {"exportPath", "kwargs"})
    IN  [raised |-> "", calls |-> <<HostCall("rename", None), HostCall("save", kw.type)>>]

\* the export operations, by name
Export(op, exportPath, kwargs) ==
    CASE op \in {"exportAll", "exportAsReference"} -> exportWithArgs(op, exportPath, kwargs)
      [] op \in {"exportSelected", "exportAnim", "exportSelectedAnim"} ->
             exportWithPath(op, exportPath, kwargs)
      [] op \in {"exportAnimFromReference", "exportSelectedAnimFromReference"} ->
             exportFromReference(op, exportPath, kwargs)
      [] op = "FileReference.exportAnim" ->
             exportOfReference("exportAnimFromReference", exportPath, kwargs)
      [] op = "FileReference.exportSelectedAnim" ->
             exportOfReference("exportSelectedAnimFromReference", exportPath, kwargs)
      [] op = "saveAs" -> saveAs(exportPath, kwargs)

ExportResult(op, exportPath, kwargs) ==
    [op |-> op, path |-> exportPath, kwargs |-> kwargs, ret |-> Export(op, exportPath, kwargs)]

\* the scene-level exports that take an export path
ExportScene ==
    \E op \in {"exportAll", "exportAsReference", "exportSelected", "exportAnim",
               "exportSelectedAnim"},
       exportPath \in ExportPaths, kwargs \in ExportKwargs :
        /\ result' = ExportResult(op, exportPath, kwargs)
        /\ UNCHANGED <<scene, parseVars, workspaceEntries>>

\* exportAnimFromReference and exportSelectedAnimFromReference of the module
ExportFromReference ==
    \E op \in {"exportAnimFromReference", "exportSelectedAnimFromReference"},
       exportPath \in ExportPaths, kwargs \in ExportKwargs :
        /\ result' = ExportResult(op, exportPath, kwargs)
        /\ UNCHANGED <<scene, parseVars, workspaceEntries>>

\* FileReference.exportAnim and FileReference.exportSelectedAnim
ExportOfReference ==
    \E op \in {"FileReference.exportAnim", "FileReference.exportSelectedAnim"},
       exportPath \in ExportPaths, kwargs \in ExportKwargs :
        /\ result' = ExportResult(op, exportPath, kwargs)
        /\ UNCHANGED <<scene, parseVars, workspaceEntries>>

\* saveAs(exportPath, **kwargs)
SaveAs ==
    \E exportPath \in ExportPaths, kwargs \in ExportKwargs :
        /\ result' = ExportResult("saveAs", exportPath, kwargs)
        /\ UNCHANGED <<scene, parseVars, workspaceEntries>>

NextExport == ExportScene \/ ExportFromReference \/ ExportOfReference \/ SaveAs

SpecExport == Init /\ [][NextExport]_vars

\* the operations of the module that take an export path
PathExports ==
    {"exportAll", "exportSelected", "exportAnim", "exportSelectedAnim",
     "exportAsReference", "saveAs", "FileReference.exportAnim",
     "FileReference.exportSelectedAnim"}

\* the type option an export of `path` is to hand to the host
ExpectedType(path, kwargs) ==
    IF kwargs.type # None THEN kwargs.type
    ELSE IF Ext(path) = <<".", "m", "a">> THEN Some("mayaAscii")
    ELSE IF Ext(path) = <<".", "m", "b">> THEN Some("mayaBinary")
    ELSE None

\* C7: an export that takes an export path hands the host the type
\* 'mayaAscii' for .ma, 'mayaBinary' for .mb and none for any other
\* extension when no type is given, and the given type when one is.
C7_TypeInference ==
    result.op \in PathExports =>
        /\ result.ret.raised = ""
        /\ result.ret.calls # <<>>
        /\ result.ret.calls[Len(result.ret.calls)].type =
               ExpectedType(result.path, result.kwargs)

-----------------------------------------------------------------------------
(* The workspace entry dictionaries *)

\* cmds.workspace(item, q=1, <entryType>Entry=1): the value of the entry, the
\* empty string when there is none
HostWorkspaceEntry(ws, entryType, item) ==
    IF ws[entryType][item] = None THEN "" ELSE ws[entryType][item][1]

\* cmds.workspace(q=1, <entryType>List=1): the names of the entries; with no
\* entry the host answers with an empty list or with None (emptyAs)
HostWorkspaceList(ws, entryType, emptyAs) ==
    LET names == {n \in EntryNames : ws[entryType][n] # None}
    IN  IF names = {} /\ emptyAs = "None" THEN [isNone |-> TRUE, val |-> {}]
        ELSE [isNone |-> FALSE, val |-> names]

\* cmds.workspace(<entryType>=[item, value]): the entry is set
HostWorkspaceSet(ws, entryType, item, value) ==
    [ws EXCEPT ![entryType][item] = Some(value)]

\* WorkspaceEntryDict.__getitem__(item): `if not res: raise KeyError`
WorkspaceEntryDict_getitem(ws, entryType, item) ==
    LET res == HostWorkspaceEntry(ws, entryType, item)
    IN  IF res = "" THEN [raised |-> "KeyError", val |-> ""]
        ELSE [raised |-> "", val |-> res]

\* WorkspaceEntryDict.keys(): the host's answer as it is
WorkspaceEntryDict_keys(ws, entryType, emptyAs) ==
    HostWorkspaceList(ws, entryType, emptyAs)

\* WorkspaceEntryDict.__contains__(key): key in self.keys(); `in None` is a
\* TypeError
WorkspaceEntryDict_contains(ws, entryType, key, emptyAs) ==
    LET keys == WorkspaceEntryDict_keys(ws, entryType, emptyAs)
    IN  IF keys.isNone THEN [raised |-> "TypeError", val |-> FALSE]
        ELSE [raised |-> "", val |-> key \in keys.val]

\* WorkspaceEntryDict.get(item, default)
WorkspaceEntryDict_get(ws, entryType, item, default) ==
    LET got == WorkspaceEntryDict_getitem(ws, entryType, item)
    IN  IF got.raised = "KeyError" THEN [raised |-> "", val |-> default] ELSE got

\* workspace.<entryType>s[item] = value
WorkspaceSetItem ==
    \E entryType \in EntryTypes, item \in EntryNames, value \in EntryValues :
        /\ result = NoResult
        /\ workspaceEntries' = HostWorkspaceSet(workspaceEntries, entryType, item, value)
        /\ UNCHANGED <<result, scene, parseVars>>

\* workspace.<entryType>s[item]
WorkspaceGetItem ==
    \E entryType \in EntryTypes, item \in EntryNames :
        /\ result = NoResult
        /\ result' = [op |-> "__getitem__", entryType |-> entryType, item |-> item,
                      ret |-> WorkspaceEntryDict_getitem(workspaceEntries, entryType, item)]
        /\ UNCHANGED <<workspaceEntries, scene, parseVars>>

\* item in workspace.<entryType>s
WorkspaceContains ==
    \E entryType \in EntryTypes, item \in EntryNames, emptyAs \in {"list", "None"} :
        /\ result = NoResult
        /\ result' = [op |-> "__contains__", entryType |-> entryType, item |-> item,
                      emptyAs |-> emptyAs,
                      ret |-> WorkspaceEntryDict_contains(workspaceEntries, entryType,
                                                          item, emptyAs)]
        /\ UNCHANGED <<workspaceEntries, scene, parseVars>>

\* workspace.<entryType>s.get(item, 'data')
WorkspaceGet ==
    \E entryType \in EntryTypes, item \in EntryNames :
        /\ result = NoResult
        /\ result' = [op |-> "get", entryType |-> entryType, item |-> item,
                      ret |-> WorkspaceEntryDict_get(workspaceEntries, entryType, item, "data")]
        /\ UNCHANGED <<workspaceEntries, scene, parseVars>>

NextWorkspace ==
    \/ WorkspaceSetItem
    \/ WorkspaceGetItem
    \/ WorkspaceContains
    \/ WorkspaceGet
    \/ Discard

SpecWorkspace == Init /\ [][NextWorkspace]_vars

\* C8: in each key-space, after set(name, value) the lookup of name returns
\* value and contains(name) is true; the lookup of an absent name fails with
\* KeyError, and contains(name) of an absent name returns false without
\* failing, also when the key-space has no entries.
C8_WorkspaceRoundTrip ==
    /\ result.op = "__getitem__" =>
           LET e == workspaceEntries[result.entryType][result.item]
           IN  IF e = None THEN result.ret.raised = "KeyError"
               ELSE result.ret.raised = "" /\ result.ret.val = e[1]
    /\ result.op = "__contains__" =>
           /\ result.ret.raised = ""
           /\ result.ret.val = (workspaceEntries[result.entryType][result.item] # None)

-----------------------------------------------------------------------------
(* The FileReference constructor with its three seeds, and the node's
   backing reference node *)

\* the name the host gives the reference node of a reference: <file>RN, then
\* <file>RN<n> for its copies
RefNodeName(r) ==
    r.file \o <<"R", "N">> \o (IF r.copy = None THEN <<>> ELSE FormatInt(r.copy[1]))

\* the position in the scene of the reference whose reference node is
\* `refnode` (0: none)
HostFindNode(sc, refnode) ==
    IF \E i \in 1..Len(sc) : RefNodeName(sc[i]) = refnode
    THEN CHOOSE i \in 1..Len(sc) : RefNodeName(sc[i]) = refnode
    ELSE 0

\* cmds.referenceQuery(refnode, filename=1): the raw string, copy number
\* included, of the reference behind a reference node
HostFilename(sc, refnode) ==
    LET i == HostFindNode(sc, refnode)
    IN  IF i = 0 THEN [raised |-> "RuntimeError", val |-> <<>>]
        ELSE [raised |-> "", val |-> RawOf(sc[i])]

\* cmds.referenceQuery(raw, referenceNode=1): the reference node of the
\* reference the host knows under `raw`
HostReferenceNode(sc, raw) ==
    LET i == HostFind(sc, raw)
    IN  IF i = 0 THEN [raised |-> "RuntimeError", val |-> <<>>]
        ELSE [raised |-> "", val |-> RefNodeName(sc[i])]

\* `if x:` on an argument that defaults to None: None and the empty value
\* are false
Truthy(arg, empty) == arg # None /\ arg[1] # empty

\* the namespace seed's loop from the i-th FileReference on: path.namespace
\* asks the host under path.withCopyNumber(); on the first equal namespace
\* create(path) is called on the FileReference itself, whose string is the
\* base path; with no match the loop ends and ValueError is raised.
RECURSIVE namespaceLoop(_, _, _, _, _)
namespaceLoop(paths, i, namespace, sc, host) ==
    IF i > Len(paths) THEN [raised |-> "ValueError", node |-> None]
    ELSE LET ns == HostNamespace(sc, host, withCopyNumber(paths[i]))
         IN  IF ns.raised # "" THEN [raised |-> ns.raised, node |-> None]
             ELSE IF ns.val = namespace
             THEN [raised |-> "", node |-> Some(create(paths[i].path))]
             ELSE namespaceLoop(paths, i + 1, namespace, sc, host)

\* FileReference(path=None, namespace=None, refnode=None): the first seed
\* that is true decides; map(FileReference, None) is a TypeError.
FileReference_new(path, namespace, refnode, sc, host) ==
    IF Truthy(path, <<>>) THEN [raised |-> "", node |-> Some(create(path[1]))]
    ELSE IF Truthy(namespace, "")
    THEN LET listed == HostReferences(sc, host)
         IN  IF listed.raised # "" THEN [raised |-> listed.raised, node |-> None]
             ELSE IF listed.isNone THEN [raised |-> "TypeError", node |-> None]
             ELSE LET mapped == mapFileReference(listed.val, 1)
                  IN  IF mapped.raised # "" THEN [raised |-> mapped.raised, node |-> None]
                      ELSE namespaceLoop(mapped.val, 1, namespace[1], sc, host)
    ELSE IF Truthy(refnode, <<>>)
    THEN LET named == HostFilename(sc, refnode[1])
         IN  IF named.raised # "" THEN [raised |-> named.raised, node |-> None]
             ELSE [raised |-> "", node |-> Some(create(named.val))]
    ELSE [raised |-> "ValueError", node |-> None]

\* FileReference._getNamespace(self)
_getNamespace(self, sc, host) == HostNamespace(sc, host, withCopyNumber(self))

\* the seeds a caller hands to the constructor
PathSeeds(sc) ==
    {None, Some(<<>>)} \cup {Some(f) : f \in Files}
        \cup {Some(RawOf(sc[i])) : i \in 1..Len(sc)}
NamespaceSeeds == {None, Some("")} \cup {Some(ns) : ns \in Namespaces}
RefnodeSeeds(sc) ==
    {None} \cup {Some(RefNodeName([file |-> f, copy |-> None])) : f \in Files}
        \cup {Some(RefNodeName(sc[i])) : i \in 1..Len(sc)}

\* the arguments of one call: every value of the seed that decides and of
\* the seeds before it; a seed that a true seed before it hides is None or
\* one value
Seeds(sc) ==
    {s \in [path : PathSeeds(sc), namespace : NamespaceSeeds, refnode : RefnodeSeeds(sc)] :
        /\ Truthy(s.path, <<>>) => (s.namespace \in {None, Some("A")} /\ s.refnode = None)
        /\ Truthy(s.namespace, "") =>
               s.refnode \in {None, Some(RefNodeName([file |-> <<"a">>, copy |-> None]))}}

\* the host with no failing call that answers an empty listing with a list
PlainHost == [emptyAs |-> "list", failRefs |-> FALSE, failNs |-> 0]

\* what the host does during one construction: only the namespace seed asks
\* it for a listing; its namespace query fails for the first reference or
\* for none
ConstructHosts(sc, s) ==
    IF ~Truthy(s.path, <<>>) /\ Truthy(s.namespace, "")
    THEN {h \in HostAnswers(sc) : h.failNs <= 1}
    ELSE {PlainHost}

\* the caller constructs a FileReference and, when no exception leaves the
\* constructor, holds it
ConstructFileReference ==
    \E s \in Seeds(scene) : \E host \in ConstructHosts(scene, s) :
        LET made == FileReference_new(s.path, s.namespace, s.refnode, scene, host)
        IN  /\ pc = "idle"
            /\ result = NoResult
            /\ fileRef' = made
            /\ pc' = IF made.raised = "" THEN "held" ELSE "idle"
            /\ result' = [op |-> "FileReference", path |-> s.path,
                          namespace |-> s.namespace, refnode |-> s.refnode, host |-> host]
            /\ refNodeAttr' = None
            /\ firstResolved' = None
            /\ UNCHANGED <<seed, rawRef, composed, scene, workspaceEntries>>


\* _getRefNode that lets the host's failure out
_getRefNode_noExcept(self, sc) ==
    LET named == HostReferenceNode(sc, withCopyNumber(self))
    IN  IF named.raised # "" THEN [raised |-> named.raised, val |-> None]
        ELSE [raised |-> "", val |-> Some(named.val)]

\* FileReference._getRefNode(self): the reference node the host names for
\* self.withCopyNumber(), or None when the host raises RuntimeError
_getRefNode(self, sc) ==
    LET named == HostReferenceNode(sc, withCopyNumber(self))
    IN  IF named.raised = "RuntimeError" THEN [raised |-> "", val |-> None]
        ELSE [raised |-> named.raised, val |-> Some(named.val)]

\* refNode = util.cacheProperty(_getRefNode, '_refNode'): the first read
\* calls the getter and keeps what it returned in the attribute `attr`; a
\* read with the attribute set returns it and calls nothing. An exception of
\* the getter leaves the attribute unset.
refNode(self, attr, sc) ==
    IF attr # None
    THEN [raised |-> "", val |-> attr[1], attr |-> attr, queried |-> FALSE]
    ELSE LET got == _getRefNode(self, sc)
         IN  IF got.raised # ""
             THEN [raised |-> got.raised, val |-> None, attr |-> None, queried |-> TRUE]
             ELSE [raised |-> "", val |-> got.val, attr |-> Some(got.val), queried |-> TRUE]

\* history: the value of the first read of refNode that returned
Resolved(first, read) ==
    IF first = None /\ read.raised = "" THEN Some(read.val) ELSE first

\* the caller reads fileRef.refNode
RefNode ==
    LET read == refNode(fileRef.node[1], refNodeAttr, scene)
    IN  /\ pc = "held"
        /\ result = NoResult
        /\ refNodeAttr' = read.attr
        /\ firstResolved' = Resolved(firstResolved, read)
        /\ result' = [op |-> "refNode", first |-> (firstResolved = None),
                      raised |-> read.raised, ret |-> read.val, queried |-> read.queried]
        /\ UNCHANGED <<seed, rawRef, fileRef, composed, pc, scene, workspaceEntries>>

\* the scene without its t-th reference
Without(sc, t) == SubSeq(sc, 1, t - 1) \o SubSeq(sc, t + 1, Len(sc))

\* fileRef.remove(): the host removes the reference it knows under
\* self.withCopyNumber()
HeldRemove ==
    LET t == HostFind(scene, withCopyNumber(fileRef.node[1]))
    IN  /\ pc = "held"
        /\ result = NoResult
        /\ t # 0
        /\ scene' = Without(scene, t)
        /\ result' = [op |-> "remove"]
        /\ UNCHANGED <<parseVars, workspaceEntries>>

\* fileRef.importContents(): the host merges the reference's contents into
\* the scene, and the reference is gone
HeldImportContents ==
    LET t == HostFind(scene, withCopyNumber(fileRef.node[1]))
    IN  /\ pc = "held"
        /\ result = NoResult
        /\ t # 0
        /\ scene' = Without(scene, t)
        /\ result' = [op |-> "importContents"]
        /\ UNCHANGED <<parseVars, workspaceEntries>>

\* fileRef.load(newFile): self.refNode is read, then the host loads the
\* reference behind that reference node, from newFile when one is given
HeldLoad ==
    \E newFile \in {None} \cup {Some(f) : f \in Files} :
        LET read == refNode(fileRef.node[1], refNodeAttr, scene)
            t == IF read.raised = "" /\ read.val # None
                 THEN HostFindNode(scene, read.val[1]) ELSE 0
            rest == Without(scene, t)
        IN  /\ pc = "held"
            /\ result = NoResult
            /\ refNodeAttr' = read.attr
            /\ firstResolved' = Resolved(firstResolved, read)
            /\ scene' = IF t = 0 THEN scene
                        ELSE IF ~Truthy(newFile, <<>>)
                        THEN [scene EXCEPT ![t].deferred = FALSE]
                        ELSE [scene EXCEPT ![t].deferred = FALSE,
                                           ![t].file = newFile[1],
                                           ![t].copy = NextCopy(rest, newFile[1])]
            /\ result' = [op |-> "load"]
            /\ UNCHANGED <<seed, rawRef, fileRef, composed, pc, workspaceEntries>>

\* fileRef.clean(): self.refNode is read, then the host drops the edits of
\* the reference behind it (no part of the scene's references)
HeldClean ==
    LET read == refNode(fileRef.node[1], refNodeAttr, scene)
    IN  /\ pc = "held"
        /\ result = NoResult
        /\ refNodeAttr' = read.attr
        /\ firstResolved' = Resolved(firstResolved, read)
        /\ result' = [op |-> "clean"]
        /\ UNCHANGED <<seed, rawRef, fileRef, composed, pc, scene, workspaceEntries>>

\* the scene is built, a FileReference is constructed from its seeds, and
\* the held node is used while the scene changes
NextReference ==
    \/ CreateReference
    \/ Remove
    \/ ConstructFileReference
    \/ RefNode
    \/ HeldRemove
    \/ HeldImportContents
    \/ HeldLoad
    \/ HeldClean
    \/ Discard

SpecReference == Init /\ [][NextReference]_vars


-----------------------------------------------------------------------------
(* Properties of the constructor and of the backing reference node *)

\* the last call constructed a FileReference from a namespace alone
NamespaceSeeded ==
    /\ result.op = "FileReference"
    /\ ~Truthy(result.path, <<>>)
    /\ Truthy(result.namespace, "")

\* C11: a FileReference constructed from a namespace ns that some top-level
\* reference of the scene has identifies that reference: its base path and
\* copy number are the reference's, withCopyNumber() is the reference's raw
\* string and the namespace getter returns ns.
C11_NamespaceSeedIdentity ==
    (/\ NamespaceSeeded
     /\ HostSound(result.host)
     /\ \E i \in 1..Len(scene) : scene[i].ns = result.namespace[1])
        => /\ fileRef.raised = ""
           /\ fileRef.node # None
           /\ \E m \in 1..Len(scene) :
                  /\ scene[m].ns = result.namespace[1]
                  /\ fileRef.node[1] = [path |-> scene[m].file, copyNumber |-> scene[m].copy]
                  /\ withCopyNumber(fileRef.node[1]) = RawOf(scene[m])
                  /\ _getNamespace(fileRef.node[1], scene, PlainHost)
                         = [raised |-> "", val |-> result.namespace[1]]

\* what the host names now as the reference node of the held FileReference
NamedNow ==
    LET named == HostReferenceNode(scene, withCopyNumber(fileRef.node[1]))
    IN  IF named.raised # "" THEN None ELSE Some(named.val)

\* C12: a read of refNode never raises; the first read asks the host and
\* returns the reference node it names, or None when it names none; every
\* later read returns the value of the first one and asks nothing, whatever
\* remove(), importContents() or load() did to the scene in between.
C12_RefNodeResolvedOnce ==
    result.op = "refNode" =>
        /\ result.raised = ""
        /\ result.first => (result.queried /\ result.ret = NamedNow)
        /\ ~result.first => (~result.queried /\ firstResolved = Some(result.ret))

\* a later read returns a reference node whose reference is gone from the scene
C12_Witness ==
    /\ result.op = "refNode"
    /\ ~result.first
    /\ ~result.queried
    /\ result.ret # None
    /\ HostFindNode(scene, result.ret[1]) = 0
    /\ NamedNow = None

\* C13: construction with no seed raises ValueError, construction from a
\* namespace that no top-level reference has raises ValueError, and neither
\* returns a node.
C13_SeedErrors ==
    /\ (/\ result.op = "FileReference"
        /\ ~Truthy(result.path, <<>>)
        /\ ~Truthy(result.namespace, "")
        /\ ~Truthy(result.refnode, <<>>))
           => (fileRef.raised = "ValueError" /\ fileRef.node = None)
    /\ (/\ NamespaceSeeded
        /\ HostSound(result.host)
        /\ \A i \in 1..Len(scene) : scene[i].ns # result.namespace[1])
           => (fileRef.raised = "ValueError" /\ fileRef.node = None)

=============================================================================
